---------------------------- MODULE Spec2Model ----------------------------
(***************************************************************************)
(* Model of the MES retrieval tool (src/main.py): the run of main() from   *)
(* configuration loading to process exit, and the template merge           *)
(* process_mes_template as a pure operator over lines of characters.       *)
(*                                                                         *)
(* A Python str is a sequence of one-character strings; indices are the    *)
(* 0-based indices of Python, -1 is str.find's "not found".                *)
(***************************************************************************)
EXTENDS Integers, Sequences, FiniteSets, TLC

(***************************************************************************)
(* Bounds of the model.                                                    *)
(***************************************************************************)
MaxRetry == 3
MaxLineLen == 5
MaxLines == 2

NL == "\n"

Whitespace == {" ", NL}
LineChars == {"#", "=", ":", "A", " "}

(***************************************************************************)
(* str primitives.                                                         *)
(***************************************************************************)
Min(a, b) == IF a <= b THEN a ELSE b

\* s[a:b] for 0 <= a, b <= len(s)
Slice(s, a, b) == SubSeq(s, a + 1, b)

\* s.find(sub, start): least index >= start where sub occurs, else -1
Find(s, sub, start) ==
    LET hits == {i \in start..(Len(s) - Len(sub)) :
                    Slice(s, i, i + Len(sub)) = sub}
    IN IF hits = {} THEN -1 ELSE CHOOSE i \in hits : \A j \in hits : i <= j

\* sub in s
Contains(s, sub) == Find(s, sub, 0) # -1

\* s.strip()
Strip(s) ==
    LET keep == {i \in 1..Len(s) : s[i] \notin Whitespace}
    IN IF keep = {} THEN <<>>
       ELSE SubSeq(s, CHOOSE i \in keep : \A j \in keep : i <= j,
                      CHOOSE i \in keep : \A j \in keep : i >= j)

\* s.endswith('\n')
EndsWithNL(s) == Len(s) > 0 /\ s[Len(s)] = NL

(***************************************************************************)
(* JSON values as Python objects, and their f-string rendering.            *)
(***************************************************************************)
JStr(s) == [t |-> "str", s |-> s]
JBool(b) == [t |-> "bool", b |-> b]
JInt(n) == [t |-> "int", n |-> n]
JNull == [t |-> "null"]

Digit(d) == CASE d = 0 -> "0" [] d = 1 -> "1" [] d = 2 -> "2" [] d = 3 -> "3"
              [] d = 4 -> "4" [] d = 5 -> "5" [] d = 6 -> "6" [] d = 7 -> "7"
              [] d = 8 -> "8" [] d = 9 -> "9"

\* f"{value}" for the values the model draws (ints are single digits)
PyStr(v) ==
    CASE v.t = "str" -> v.s
      [] v.t = "bool" -> IF v.b THEN <<"T", "r", "u", "e">>
                                ELSE <<"F", "a", "l", "s", "e">>
      [] v.t = "int" -> <<Digit(v.n)>>
      [] v.t = "null" -> <<"N", "o", "n", "e">>

(***************************************************************************)
(* A dict is a sequence of [k, v] entries with distinct keys, in insertion *)
(* order.                                                                  *)
(***************************************************************************)
Keys(d) == [i \in 1..Len(d) |-> d[i].k]
HasKey(d, key) == \E i \in 1..Len(d) : d[i].k = key
Lookup(d, key) == d[CHOOSE i \in 1..Len(d) : d[i].k = key].v

\* list.remove(x) when x is in the list: drops the first occurrence
ListRemove(l, x) ==
    LET i == CHOOSE j \in 1..Len(l) : l[j] = x /\ \A m \in 1..(j - 1) : l[m] # x
    IN SubSeq(l, 1, i - 1) \o SubSeq(l, i + 1, Len(l))

InList(l, x) == \E i \in 1..Len(l) : l[i] = x

(***************************************************************************)
(* process_mes_template                                                    *)
(***************************************************************************)
\* the timestamp line: "%Y-%m-%d %H:%M:%S" + "." + '%f'[:2] + "\n"
TimestampLine(now) ==
    <<now.sec, ".", Digit(now.usec \div 100000),
      Digit((now.usec \div 10000) % 10), NL>>

\* line 133-134
Terminated(line) == IF EndsWithNL(line) THEN line ELSE line \o <<NL>>

\* line 136: the placeholder test on the stripped line
LooksLikePlaceholder(line) ==
    LET line_stripped == Strip(line)
    IN Contains(line_stripped, <<"#", "#">>)
       /\ (Contains(line_stripped, <<"=">>) \/ Contains(line_stripped, <<":">>))

\* line 137
ChooseSepFirstAfterMarker(line) ==
    LET start_idx == Find(line, <<"#", "#">>, 0)
        eq == Find(line, <<"=">>, start_idx)
        co == Find(line, <<":">>, start_idx)
    IN IF eq = -1 THEN ":" ELSE IF co = -1 THEN "=" ELSE IF eq < co THEN "=" ELSE ":"

ChooseSep(line) == IF Contains(Strip(line), <<"=">>) THEN "=" ELSE ":"

\* lines 136-143: whether the line parses as a placeholder, and then its key
\* and the index of its separator in the terminated line
ParseLine(raw) ==
    LET line == Terminated(raw)
        sep == ChooseSep(raw)
        start_idx == Find(line, <<"#", "#">>, 0)
        sep_idx == Find(line, <<sep>>, start_idx)
    IN IF LooksLikePlaceholder(raw) /\ sep_idx > start_idx
       THEN [found |-> TRUE, sep_idx |-> sep_idx,
             key |-> Strip(Slice(line, start_idx + 2, sep_idx))]
       ELSE [found |-> FALSE, sep_idx |-> -1, key |-> <<>>]

\* the line with the stripped text passed through
MergeLineStripsPassthrough(raw, mes_data) ==
    LET line == Terminated(raw)
        parsed == ParseLine(raw)
    IN IF parsed.found /\ HasKey(mes_data, parsed.key)
       THEN [filled |-> TRUE, key |-> parsed.key,
             out |-> Slice(line, 0, parsed.sep_idx + 1)
                       \o PyStr(Lookup(mes_data, parsed.key))
                       \o <<NL>>]
       ELSE [filled |-> FALSE, key |-> <<>>, out |-> Strip(raw) \o <<NL>>]

\* lines 132-157 for one template line: what it appends to new_content and
\* which key (if any) it fills
MergeLine(raw, mes_data) ==
    LET line == Terminated(raw)
        parsed == ParseLine(raw)
    IN IF parsed.found /\ HasKey(mes_data, parsed.key)
       THEN [filled |-> TRUE, key |-> parsed.key,
             out |-> Slice(line, 0, parsed.sep_idx + 1)
                       \o PyStr(Lookup(mes_data, parsed.key))
                       \o <<NL>>]
       ELSE [filled |-> FALSE, key |-> <<>>, out |-> line]

\* lines 151-152
RemoveFilledDropsNothing(remaining_keys, r) == remaining_keys

RemoveFilledDropsFirst(remaining_keys, r) ==
    IF r.filled /\ remaining_keys # <<>> THEN Tail(remaining_keys) ELSE remaining_keys

RemoveFilled(remaining_keys, r) ==
    IF r.filled /\ InList(remaining_keys, r.key)
    THEN ListRemove(remaining_keys, r.key)
    ELSE remaining_keys

\* the loop with fills looked up among the remaining keys only
RECURSIVE MergeLoopFillsOnce(_, _, _, _, _)
MergeLoopFillsOnce(lines, i, mes_data, remaining_keys, new_content) ==
    IF i > Len(lines)
    THEN [remaining_keys |-> remaining_keys, new_content |-> new_content]
    ELSE LET avail == SelectSeq(mes_data, LAMBDA e : InList(remaining_keys, e.k))
             r == MergeLine(lines[i], avail)
         IN MergeLoopFillsOnce(lines, i + 1, mes_data,
                               RemoveFilled(remaining_keys, r),
                               Append(new_content, r.out))

\* lines 131-157: the loop over the template lines, from line i on
RECURSIVE MergeLoop(_, _, _, _, _)
MergeLoop(lines, i, mes_data, remaining_keys, new_content) ==
    IF i > Len(lines)
    THEN [remaining_keys |-> remaining_keys, new_content |-> new_content]
    ELSE LET r == MergeLine(lines[i], mes_data)
         IN MergeLoop(lines, i + 1, mes_data,
                      RemoveFilled(remaining_keys, r),
                      Append(new_content, r.out))

\* line 163
NewKeyLine(mes_data, key) ==
    <<"#", "#">> \o key \o <<"=">> \o PyStr(Lookup(mes_data, key)) \o <<NL>>

\* lines 160-171
AppendNewKeysAtEnd(mes_data, remaining_keys, new_content) ==
    new_content \o [i \in 1..Len(remaining_keys) |->
                        NewKeyLine(mes_data, remaining_keys[i])]

AppendNewKeys(mes_data, remaining_keys, new_content) ==
    IF remaining_keys # <<>>
    THEN LET new_keys_content == [i \in 1..Len(remaining_keys) |->
                                     NewKeyLine(mes_data, remaining_keys[i])]
         IN IF new_content # <<>>
               /\ Strip(new_content[Len(new_content)]) = <<"#", "#">>
            THEN SubSeq(new_content, 1, Len(new_content) - 1)
                   \o new_keys_content
                   \o <<new_content[Len(new_content)]>>
            ELSE new_content \o new_keys_content
    ELSE new_content

ProcessMesTemplateStampLast(lines, mes_data, now) ==
    LET looped == MergeLoop(lines, 1, mes_data, Keys(mes_data), <<>>)
    IN <<TimestampLine(now)>>
         \o AppendNewKeys(mes_data, looped.remaining_keys, looped.new_content)
         \o <<TimestampLine(now)>>

\* lines 121-173, given the lines read from the template file
ProcessMesTemplate(lines, mes_data, now) ==
    LET looped == MergeLoop(lines, 1, mes_data, Keys(mes_data),
                            <<TimestampLine(now)>>)
    IN AppendNewKeys(mes_data, looped.remaining_keys, looped.new_content)


(***************************************************************************)
(* The run of the program.                                                 *)
(***************************************************************************)
VARIABLES
    pc,                \* position of the run
    config,            \* Option: the settings load_config returned
    sn_file,           \* the serial-number file on disk
    mb_sn,             \* Option: the serial number get_mb_sn returned
    attempt,           \* the loop variable of the retry loop
    response,          \* Option: main's `response`
    mes_data_content,  \* Option: main's `mes_data_content` (the merged lines)
    data_dict,         \* the dict handed to process_mes_template
    template_file,     \* the template file on disk
    gets,              \* number of requests.get calls issued
    sleeps,            \* number of time.sleep calls made
    outcomes,          \* class of each finished attempt, in order
    interrupts,        \* steps during which a KeyboardInterrupt arrived
    output_file,       \* the processed report on disk
    raw_file,          \* the raw dump on disk
    exit_code,         \* Option: the process exit status
    exit_via,          \* how the process ended
    error_message,     \* Option: the message show_error_and_exit presented
    previous_content   \* Option: what the call of process_mes_template before
                       \* the latest one returned

vars == <<pc, config, sn_file, mb_sn, attempt, response, mes_data_content, data_dict,
          template_file, gets, sleeps, outcomes, interrupts, output_file,
          raw_file, exit_code, exit_via, error_message, previous_content>>

\* Python's None and a present value
Nothing == <<>>
Some(x) == <<x>>
IsNone(o) == o = <<>>
The(o) == o[1]

(***************************************************************************)
(* Inputs of the environment.                                              *)
(***************************************************************************)
Str1 == JStr(<<"1">>)
StrL == JStr(<<"L">>)

\* dicts a success body can carry under "data"
MainDicts ==
    { <<>>,
      <<[k |-> <<"A">>, v |-> Str1]>>,
      <<[k |-> <<"A">>, v |-> StrL], [k |-> <<"B">>, v |-> JBool(TRUE)]>> }

\* template files the run can find
MainTemplates ==
    { [exists |-> FALSE, readable |-> FALSE, lines |-> <<>>],
      [exists |-> TRUE, readable |-> FALSE, lines |-> <<<<"#", "#", "A", "=", NL>>>>],
      [exists |-> TRUE, readable |-> TRUE, lines |-> <<>>],
      [exists |-> TRUE, readable |-> TRUE,
       lines |-> <<<<"P", "#", "#", "A", "=", NL>>, <<"#", "#", NL>>>>] }

Clocks == { [sec |-> "2026-01-01 00:00:00", usec |-> 5],
            [sec |-> "2026-01-01 00:00:01", usec |-> 345678] }

\* what requests.get can produce; `data` is the kind of the body's "data"
NoBody == [json |-> "none", success |-> "none", data |-> "none", dict |-> <<>>]
Body(json, success, data, dict) ==
    [json |-> json, success |-> success, data |-> data, dict |-> dict]

FailBodies ==
    {Body("invalid", "none", "none", <<>>)}
    \cup {Body(j, "none", "none", <<>>) : j \in {"list", "null", "string", "number"}}
    \cup {Body("object", s, "absent", <<>>) :
              s \in {"false", "missing", "null", "one", "string_true"}}
    \cup {Body("object", "false", "object", <<[k |-> <<"A">>, v |-> Str1]>>)}

SuccessBodies ==
    {Body("object", "true", d, <<>>) : d \in {"absent", "null", "list", "string", "number"}}
    \cup {Body("object", "true", "object", d) : d \in MainDicts}

Outcomes ==
    {[kind |-> "exception", status |-> 0, body |-> NoBody]}
    \cup {[kind |-> "response", status |-> s, body |-> b] :
              s \in {200}, b \in FailBodies \cup SuccessBodies}
    \cup {[kind |-> "response", status |-> s, body |-> b] :
              s \in {404, 500}, b \in {Body("invalid", "none", "none", <<>>),
                                       Body("object", "true", "absent", <<>>)}}

\* line 225, `is_successful is True`, for the `success` of a JSON object
IsSuccessfulTruthy(body) == body.success \in {"true", "one", "string_true"}

IsSuccessful(body) == body.success = "true"

\* lines 219-225: HTTP 200, parsable JSON object, `success` is True
TrueSuccess(o) ==
    /\ o.kind = "response"
    /\ o.status = 200
    /\ o.body.json = "object"
    /\ IsSuccessful(o.body)

\* the class of an attempt outcome, as recorded in `outcomes`
Class(o) ==
    IF o.kind = "exception" THEN "exception"
    ELSE IF o.status # 200 THEN "status"
    ELSE IF o.body.json = "invalid" THEN "badjson"
    ELSE IF o.body.json # "object" THEN "nonobject"
    ELSE IF o.body.success # "true" THEN "bizfail"
    ELSE IF o.body.data \in {"absent", "object"} THEN "success"
    ELSE "success_baddata"

(***************************************************************************)
(* Process exit.                                                           *)
(***************************************************************************)
\* sys.exit(code) / an exception leaving main
Exit(code, via, msg) ==
    /\ pc' = "exited"
    /\ exit_code' = Some(code)
    /\ exit_via' = via
    /\ error_message' = msg

\* lines 176-187
ShowErrorAndExit(message) == Exit(1, "show_error_and_exit", Some(message))

\* an exception no handler catches: traceback, status 1
Uncaught == Exit(1, "uncaught", Nothing)

\* lines 302-304
KeyboardInterruptExit(step) ==
    /\ interrupts' = interrupts \cup {step}
    /\ Exit(130, "KeyboardInterrupt", Nothing)

(***************************************************************************)
(* Steps of main().                                                        *)
(***************************************************************************)
RetryCounts == 0..MaxRetry

\* values config.getint can return for REQUEST_TIMEOUT_SECONDS
RequestTimeouts == {0, 10}

\* lines 67-78: the settings dict; no value is checked against a range
Settings(rc, timeout) ==
    [retry_count |-> rc, retry_delay |-> 5, request_timeout |-> timeout]

\* lines 199-201 with load_config (57-83)
LoadConfig ==
    /\ pc = "load_config"
    /\ \E how \in {"ok", "no_file", "missing_option", "no_section", "bad_int"} :
         CASE how = "ok" ->
                \E rc \in RetryCounts, timeout \in RequestTimeouts :
                    /\ config' = Some(Settings(rc, timeout))
                    /\ pc' = "get_mb_sn"
                    /\ UNCHANGED <<exit_code, exit_via, error_message>>
           [] how \in {"no_file", "missing_option"} ->
                \* load_config returns None
                /\ ShowErrorAndExit("Failed to load configuration.")
                /\ UNCHANGED config
           [] how \in {"no_section", "bad_int"} ->
                \* NoSectionError / ValueError are not caught by load_config
                /\ Uncaught
                /\ UNCHANGED config
    /\ UNCHANGED <<previous_content, sn_file, mb_sn, attempt, response,
                   mes_data_content, data_dict, template_file, gets, sleeps,
                   outcomes, interrupts, output_file, raw_file>>

\* what get_mb_sn (86-101) returns for a state of the serial-number file
SnFiles == {"missing", "empty", "whitespace", "unreadable", "ok"}

GetMbSnNoStrip(file) ==
    CASE file = "ok" -> Some("SN")
      [] file = "whitespace" -> Some(" ")
      [] OTHER -> Nothing

GetMbSnResult(file) == IF file = "ok" THEN Some("SN") ELSE Nothing

\* lines 203-205
GetMbSn ==
    /\ pc = "get_mb_sn"
    /\ \E interrupted \in BOOLEAN :
         IF interrupted
         THEN \* `except Exception` does not catch KeyboardInterrupt
              /\ KeyboardInterruptExit("serial_read")
              /\ UNCHANGED mb_sn
         ELSE /\ mb_sn' = GetMbSnResult(sn_file)
              /\ UNCHANGED interrupts
              /\ IF IsNone(mb_sn')
                 THEN ShowErrorAndExit("Failed to load SN configuration.")
                 ELSE /\ pc' = "for"
                      /\ UNCHANGED <<exit_code, exit_via, error_message>>
    /\ UNCHANGED <<previous_content, config, sn_file, attempt, response, mes_data_content,
                   data_dict, template_file, gets, sleeps, outcomes,
                   output_file, raw_file>>

\* line 213: the next iteration of `for attempt in range(retry_count)`
ForNext ==
    /\ pc = "for"
    /\ pc' = IF attempt < The(config).retry_count THEN "request" ELSE "after_loop"
    /\ UNCHANGED <<previous_content, config, sn_file, mb_sn, attempt, response, mes_data_content, data_dict,
                   template_file, gets, sleeps, outcomes, interrupts,
                   output_file, raw_file, exit_code, exit_via, error_message>>

\* resp_json.get('data', {}) of a success body that is an object
DataDict(body) == IF body.data = "absent" THEN <<>> ELSE body.dict

TemplateLinesKeepsUnreadable(tf) == IF tf.exists THEN tf.lines ELSE <<>>

\* lines 110-119: the lines process_mes_template works on
TemplateLines(tf) == IF tf.exists /\ tf.readable THEN tf.lines ELSE <<>>

\* line 250
SleepsAfterAnyFailure(resp, att, rc) == IsNone(resp)

ShouldSleep(resp, att, rc) == IsNone(resp) /\ att < rc - 1

\* the end of one loop body (lines 250-252) with `response` set to resp
EndOfBody(resp) ==
    /\ response' = resp
    /\ IF ShouldSleep(resp, attempt, The(config).retry_count)
       THEN pc' = "sleep" /\ UNCHANGED attempt
       ELSE pc' = "for" /\ attempt' = attempt + 1
    /\ UNCHANGED <<mes_data_content, data_dict, interrupts,
                   exit_code, exit_via, error_message>>

\* lines 214-252: one attempt
Attempt ==
    /\ pc = "request"
    /\ gets' = gets + 1
    /\ \E o \in Outcomes, interrupted \in {"no", "request", "template_read"},
          now \in Clocks :
         IF interrupted = "request"
         THEN \* KeyboardInterrupt is no RequestException
              /\ KeyboardInterruptExit("request")
              /\ UNCHANGED <<attempt, response, mes_data_content, data_dict, outcomes>>
         ELSE
         /\ outcomes' = Append(outcomes, Class(o))
         /\ CASE o.kind = "exception" -> EndOfBody(Nothing)
              [] o.kind = "response" /\ o.status # 200 -> EndOfBody(Nothing)
              [] o.kind = "response" /\ o.status = 200 /\ o.body.json = "invalid" ->
                   EndOfBody(Nothing)
              [] o.kind = "response" /\ o.status = 200
                   /\ o.body.json \notin {"invalid", "object"} ->
                   \* resp_json.get: AttributeError, caught by no handler
                   /\ Uncaught
                   /\ response' = Some(o)
                   /\ UNCHANGED <<attempt, mes_data_content, data_dict, interrupts>>
              [] o.kind = "response" /\ o.status = 200 /\ o.body.json = "object"
                   /\ ~IsSuccessful(o.body) -> EndOfBody(Nothing)
              [] TrueSuccess(o) /\ interrupted = "template_read"
                   /\ template_file.exists ->
                   /\ KeyboardInterruptExit("template_read")
                   /\ response' = Some(o)
                   /\ UNCHANGED <<attempt, mes_data_content, data_dict>>
              [] TrueSuccess(o)
                   /\ ~(interrupted = "template_read" /\ template_file.exists)
                   /\ o.body.data \notin {"absent", "object"} ->
                   \* mes_data.keys(): AttributeError, caught by no handler
                   /\ Uncaught
                   /\ response' = Some(o)
                   /\ UNCHANGED <<attempt, mes_data_content, data_dict, interrupts>>
              [] TrueSuccess(o)
                   /\ ~(interrupted = "template_read" /\ template_file.exists)
                   /\ o.body.data \in {"absent", "object"} ->
                   /\ response' = Some(o)
                   /\ data_dict' = DataDict(o.body)
                   /\ mes_data_content' =
                        Some(ProcessMesTemplate(TemplateLines(template_file),
                                                DataDict(o.body), now))
                   /\ pc' = "after_loop"
                   /\ UNCHANGED <<attempt, interrupts, exit_code, exit_via,
                                  error_message>>
    /\ UNCHANGED <<previous_content, config, sn_file, mb_sn, template_file, sleeps, output_file, raw_file>>

\* line 252
Sleep ==
    /\ pc = "sleep"
    /\ sleeps' = sleeps + 1
    /\ \E interrupted \in BOOLEAN :
         IF interrupted
         THEN /\ KeyboardInterruptExit("sleep")
              /\ UNCHANGED attempt
         ELSE /\ pc' = "for"
              /\ attempt' = attempt + 1
              /\ UNCHANGED <<interrupts, exit_code, exit_via, error_message>>
    /\ UNCHANGED <<previous_content, config, sn_file, mb_sn, response, mes_data_content, data_dict,
                   template_file, gets, outcomes, output_file, raw_file>>

ConnectMessage == "Could not connect to MES system or retrieve valid data."

LoopFailedNever(content, resp) == FALSE

\* line 254
LoopFailed(content, resp) == IsNone(content) \/ IsNone(resp)

\* lines 254-255
AfterLoop ==
    /\ pc = "after_loop"
    /\ IF LoopFailed(mes_data_content, response)
       THEN ShowErrorAndExit(ConnectMessage)
       ELSE /\ pc' = "write_processed"
            /\ UNCHANGED <<exit_code, exit_via, error_message>>
    /\ UNCHANGED <<previous_content, config, sn_file, mb_sn, attempt, response, mes_data_content, data_dict,
                   template_file, gets, sleeps, outcomes, interrupts,
                   output_file, raw_file>>

File(state, lines) == [state |-> state, lines |-> lines]

WriteMessage == "Could not write to output file."

\* lines 264-266: the handler of an IOError of the processed report
AfterWriteErrorLogsOnly ==
    /\ pc' = "write_raw"
    /\ UNCHANGED <<exit_code, exit_via, error_message>>

AfterWriteError == ShowErrorAndExit(WriteMessage)

\* lines 278-279: the handler of an IOError of the raw dump
AfterRawErrorIsFatal == ShowErrorAndExit("Could not write to raw file.")

AfterRawError ==
    /\ pc' = "finish"
    /\ UNCHANGED <<exit_code, exit_via, error_message>>

\* lines 258-266
WriteProcessed ==
    /\ pc = "write_processed"
    /\ \E how \in {"ok", "mkdir_error", "write_error", "interrupt"} :
         CASE how = "ok" ->
                /\ output_file' = File("complete", The(mes_data_content))
                /\ pc' = "write_raw"
                /\ UNCHANGED <<interrupts, exit_code, exit_via, error_message>>
           [] how = "mkdir_error" ->
                /\ UNCHANGED <<output_file, interrupts>>
                /\ AfterWriteError
           [] how = "write_error" ->
                /\ output_file' = File("partial", <<>>)
                /\ UNCHANGED interrupts
                /\ AfterWriteError
           [] how = "interrupt" ->
                /\ output_file' = File("partial", <<>>)
                /\ KeyboardInterruptExit("write_processed")
    /\ UNCHANGED <<previous_content, config, sn_file, mb_sn, attempt, response, mes_data_content, data_dict,
                   template_file, gets, sleeps, outcomes, raw_file>>

\* lines 269-272 and 278-279: mkdir and open of the raw dump
OpenRaw ==
    /\ pc = "write_raw"
    /\ \E how \in {"ok", "io_error", "interrupt"} :
         CASE how = "ok" ->
                /\ raw_file' = "empty"
                /\ pc' = "raw_dump"
                /\ UNCHANGED <<interrupts, exit_code, exit_via, error_message>>
           [] how = "io_error" ->
                \* logged only
                /\ AfterRawError
                /\ UNCHANGED <<raw_file, interrupts>>
           [] how = "interrupt" ->
                /\ KeyboardInterruptExit("raw_open")
                /\ UNCHANGED raw_file
    /\ UNCHANGED <<previous_content, config, sn_file, mb_sn, attempt, response, mes_data_content, data_dict,
                   template_file, gets, sleeps, outcomes, output_file>>

\* lines 273-275: json.dump under a bare `except:`
DumpRaw ==
    /\ pc = "raw_dump"
    /\ \E how \in {"ok", "error", "interrupt"} :
         CASE how = "ok" ->
                /\ raw_file' = "json"
                /\ pc' = "finish"
                /\ UNCHANGED interrupts
           [] how = "error" ->
                /\ raw_file' = "partial"
                /\ pc' = "raw_fallback"
                /\ UNCHANGED interrupts
           [] how = "interrupt" ->
                \* the bare except catches KeyboardInterrupt too
                /\ raw_file' = "partial"
                /\ pc' = "raw_fallback"
                /\ interrupts' = interrupts \cup {"raw_dump"}
    /\ UNCHANGED <<previous_content, config, sn_file, mb_sn, attempt, response, mes_data_content, data_dict,
                   template_file, gets, sleeps, outcomes, output_file,
                   exit_code, exit_via, error_message>>

\* lines 276-279: f.write(response.text) in the handler
FallbackRaw ==
    /\ pc = "raw_fallback"
    /\ \E how \in {"ok", "io_error", "interrupt"} :
         CASE how = "ok" ->
                /\ raw_file' = "text"
                /\ pc' = "finish"
                /\ UNCHANGED <<interrupts, exit_code, exit_via, error_message>>
           [] how = "io_error" ->
                /\ AfterRawError
                /\ UNCHANGED <<raw_file, interrupts>>
           [] how = "interrupt" ->
                /\ KeyboardInterruptExit("raw_fallback")
                /\ UNCHANGED raw_file
    /\ UNCHANGED <<previous_content, config, sn_file, mb_sn, attempt, response, mes_data_content, data_dict,
                   template_file, gets, sleeps, outcomes, output_file>>

\* lines 281-282
Finish ==
    /\ pc = "finish"
    /\ Exit(0, "sys.exit", Nothing)
    /\ UNCHANGED <<previous_content, config, sn_file, mb_sn, attempt, response, mes_data_content, data_dict,
                   template_file, gets, sleeps, outcomes, interrupts,
                   output_file, raw_file>>

Init ==
    /\ pc = "load_config"
    /\ config = Nothing
    /\ sn_file \in SnFiles
    /\ mb_sn = Nothing
    /\ attempt = 0
    /\ response = Nothing
    /\ mes_data_content = Nothing
    /\ data_dict = <<>>
    /\ template_file \in MainTemplates
    /\ gets = 0
    /\ sleeps = 0
    /\ outcomes = <<>>
    /\ interrupts = {}
    /\ output_file = File("absent", <<>>)
    /\ raw_file = "absent"
    /\ exit_code = Nothing
    /\ exit_via = "running"
    /\ error_message = Nothing
    /\ previous_content = Nothing

Next ==
    \/ LoadConfig
    \/ GetMbSn
    \/ ForNext
    \/ Attempt
    \/ Sleep
    \/ AfterLoop
    \/ WriteProcessed
    \/ OpenRaw
    \/ DumpRaw
    \/ FallbackRaw
    \/ Finish

Spec == Init /\ [][Next]_vars

(***************************************************************************)
(* Properties of the retry loop and of the run.                            *)
(***************************************************************************)
Exited == pc = "exited"

SuccessClasses == {"success", "success_baddata"}

HasSuccess(outs) == \E i \in 1..Len(outs) : outs[i] \in SuccessClasses

\* index of the first true-success attempt (only used when there is one)
FirstSuccess(outs) ==
    CHOOSE i \in 1..Len(outs) :
        outs[i] \in SuccessClasses /\ \A j \in 1..(i - 1) : outs[j] \notin SuccessClasses

LastClass == outcomes[Len(outcomes)]

RetryCount == The(config).retry_count

\* the run got as far as the retry loop
LoopEntered == ~IsNone(mb_sn)

\* C1: with retry_count >= 1 and no interrupt, a finished run has issued
\* exactly min(retry_count, k) GET calls, k the index of the first
\* true-success attempt (no such attempt: retry_count calls); no call is
\* issued after the first true success or beyond retry_count.
C1_ExactGetCount ==
    (LoopEntered /\ RetryCount >= 1) =>
        /\ gets <= RetryCount
        /\ HasSuccess(outcomes) => gets = FirstSuccess(outcomes)
        /\ (Exited /\ interrupts = {}) =>
              gets = IF HasSuccess(outcomes)
                     THEN Min(RetryCount, FirstSuccess(outcomes))
                     ELSE RetryCount

\* the client returned Success: the run is past the check of line 254
ClientSuccess ==
    pc \in {"write_processed", "write_raw", "raw_dump", "raw_fallback", "finish"}

ConnectFailure == error_message = Some(ConnectMessage)

\* C2: the client result is Success only if the last attempt returned HTTP
\* 200 with a JSON object whose `success` is true; the 'Could not connect'
\* failure is presented only after all retry_count attempts were made and
\* none of them was a true success.
C2_SuccessOnlyOnTrueSuccess ==
    /\ (ClientSuccess \/ exit_code = Some(0) \/ output_file.state # "absent") =>
          (outcomes # <<>> /\ LastClass = "success")
    /\ ConnectFailure =>
          (gets = RetryCount /\ Len(outcomes) = RetryCount /\ ~HasSuccess(outcomes))

C2_Witness ==
    /\ pc = "write_processed"
    /\ outcomes = <<"status", "bizfail", "success">>

\* C3: every attempt outcome other than true success is swallowed: the
\* attempt leaves `response` None and is followed by the retry decision
\* (sleep unless it was the last allowed attempt), never by the end of the run.
C3_FailuresSwallowed ==
    [][(pc = "request" /\ Len(outcomes') > Len(outcomes)
          /\ outcomes'[Len(outcomes')] \notin SuccessClasses)
        => /\ IsNone(response')
           /\ pc' = IF attempt < RetryCount - 1 THEN "sleep" ELSE "for"]_vars

\* C4: sleeps occur only between attempts: every request but the first is
\* preceded by exactly one sleep, a sleep follows only a failed attempt that
\* is not the last allowed one, and no sleep follows the final allowed attempt
\* or a success; so a run whose retry_count attempts all fail sleeps
\* retry_count - 1 times and a run whose first success is attempt k sleeps
\* k - 1 times.
C4_SleepsOnlyBetweenAttempts ==
    /\ pc = "request" => sleeps = gets
    /\ pc = "sleep" =>
          /\ LastClass \notin SuccessClasses
          /\ gets < RetryCount
          /\ sleeps = gets - 1
    /\ (pc = "for" /\ gets >= 1) =>
          sleeps = IF attempt < RetryCount THEN gets ELSE gets - 1
    /\ (gets >= 1 /\ (pc = "after_loop" \/ ClientSuccess)) => sleeps = gets - 1
    /\ (Exited /\ gets >= 1 /\ "sleep" \notin interrupts) => sleeps = gets - 1
    /\ (Exited /\ interrupts = {} /\ LoopEntered) =>
          /\ (Len(outcomes) = RetryCount /\ ~HasSuccess(outcomes) /\ RetryCount >= 1)
                => sleeps = RetryCount - 1
          /\ HasSuccess(outcomes) => sleeps = FirstSuccess(outcomes) - 1

C4_Witness ==
    /\ Exited
    /\ exit_code = Some(0)
    /\ outcomes = <<"exception", "exception", "success">>
    /\ gets = 3
    /\ sleeps = 2

BlankSnFiles == {"missing", "empty", "whitespace"}

\* C5: with the serial-number file missing, empty or all whitespace, the run
\* never issues a request, sleeps, merges or writes an output file, and
\* (unless interrupted) ends from get_mb_sn with status 1.
C5_NoSerialNoRequest ==
    sn_file \in BlankSnFiles =>
        /\ pc \in {"load_config", "get_mb_sn", "exited"}
        /\ gets = 0
        /\ sleeps = 0
        /\ outcomes = <<>>
        /\ IsNone(mes_data_content)
        /\ output_file.state = "absent"
        /\ raw_file = "absent"
        /\ (Exited /\ ~IsNone(config) /\ interrupts = {}) =>
              /\ exit_code = Some(1)
              /\ error_message = Some("Failed to load SN configuration.")

C5_Witness ==
    /\ Exited
    /\ sn_file = "whitespace"
    /\ ~IsNone(config)
    /\ exit_code = Some(1)
    /\ error_message = Some("Failed to load SN configuration.")

\* C6: a KeyboardInterrupt arriving during a blocking step always ends the
\* process with status 130; it is never swallowed.
C6_InterruptExits130 ==
    (Exited /\ interrupts # {}) => exit_code = Some(130)

\* C7: once an attempt has returned success == true, the merge does not fail:
\* whatever the body's `data` is, the merged lines exist and the run goes on
\* to the write step.
C7_MergeNeverFails ==
    (outcomes # <<>> /\ LastClass \in SuccessClasses /\ interrupts = {}) =>
        /\ ~IsNone(mes_data_content)
        /\ exit_via # "uncaught"

(***************************************************************************)
(* process_mes_template on its own: the call with every template and dict  *)
(* of the bounded sets below.                                              *)
(***************************************************************************)
\* all strings over LineChars of length <= n
Strings(n) == UNION {[1..k -> LineChars] : k \in 0..n}

\* template lines worth combining into longer templates
CuratedLines ==
    { <<"P", "#", "#", "A", "=">>,
      <<"#", "#", "B", ":", "x">>,
      <<"#", "#">>,
      <<" ", "#", "#", " ">>,
      <<"t", "x", "t">>,
      <<"#", "#", "A", ":", "=">>,
      <<"=", "#", "#", "A", ":">>,
      <<"#", "#", " ", "A", " ", "=">> }

\* f.readlines(): every line ends with "\n", except possibly the last
Readlines(contents, last_terminated) ==
    [i \in 1..Len(contents) |->
        IF i < Len(contents) \/ last_terminated
        THEN contents[i] \o <<NL>>
        ELSE contents[i]]

CuratedTemplates ==
    { Readlines(c, t) :
        c \in UNION {[1..k -> CuratedLines] : k \in 0..MaxLines}, t \in BOOLEAN }

KeyA == <<"A">>
KeyB == <<"B">>
KeyC == <<"C">>
KeyD == <<"D">>

CuratedDicts ==
    { <<>>,
      <<[k |-> KeyA, v |-> Str1]>>,
      <<[k |-> KeyA, v |-> StrL], [k |-> KeyB, v |-> JBool(TRUE)]>>,
      <<[k |-> KeyB, v |-> JBool(FALSE)], [k |-> KeyA, v |-> Str1]>>,
      <<[k |-> KeyC, v |-> JInt(7)], [k |-> KeyA, v |-> Str1]>>,
      <<[k |-> KeyC, v |-> JInt(7)], [k |-> KeyD, v |-> JNull]>> }

\* dicts for the one-line templates over LineChars
LineDicts ==
    { <<>>,
      <<[k |-> KeyA, v |-> Str1]>>,
      <<[k |-> <<"A", ":">>, v |-> JInt(7)], [k |-> <<>>, v |-> StrL]>> }

TemplateFile(lines) == [exists |-> TRUE, readable |-> TRUE, lines |-> lines]

InitMerge ==
    /\ pc = "process_mes_template"
    /\ \/ /\ template_file \in {TemplateFile(<<l \o <<NL>>>>) : l \in Strings(MaxLineLen)}
          /\ data_dict \in LineDicts
       \/ /\ template_file \in {TemplateFile(t) : t \in CuratedTemplates}
                                   \cup MainTemplates
          /\ data_dict \in CuratedDicts
    /\ config = Nothing
    /\ sn_file = "ok"
    /\ mb_sn = Nothing
    /\ attempt = 0
    /\ response = Nothing
    /\ mes_data_content = Nothing
    /\ gets = 0
    /\ sleeps = 0
    /\ outcomes = <<>>
    /\ interrupts = {}
    /\ output_file = File("absent", <<>>)
    /\ raw_file = "absent"
    /\ exit_code = Nothing
    /\ exit_via = "running"
    /\ error_message = Nothing
    /\ previous_content = Nothing

\* lines 104-173: one call of process_mes_template(template_path, data_dict)
ProcessCall ==
    /\ pc \in {"process_mes_template", "merged"}
    /\ \E now \in Clocks :
         mes_data_content' =
            Some(ProcessMesTemplate(TemplateLines(template_file), data_dict, now))
    /\ previous_content' = mes_data_content
    /\ pc' = "merged"
    /\ UNCHANGED <<config, sn_file, mb_sn, attempt, response, data_dict,
                   template_file, gets, sleeps, outcomes, interrupts,
                   output_file, raw_file, exit_code, exit_via, error_message>>

NextMerge == ProcessCall

SpecMerge == InitMerge /\ [][NextMerge]_vars

(***************************************************************************)
(* Properties of process_mes_template.                                     *)
(***************************************************************************)
Merged == pc = "merged"

TLines == TemplateLines(template_file)
Out == The(mes_data_content)
Marker == <<"#", "#">>

\* the output line that template line i produced: line i + 1, except that a
\* last line that is the lone marker moves behind the appended lines
LineOut(i) ==
    IF i = Len(TLines) /\ Len(Out) > Len(TLines) + 1 /\ Strip(Out[Len(Out)]) = Marker
    THEN Out[Len(Out)]
    ELSE Out[i + 1]

\* 1-based positions of the line
MarkerAt(line, p) == p + 1 <= Len(line) /\ line[p] = "#" /\ line[p + 1] = "#"
FirstMarker(line) ==
    CHOOSE p \in 1..Len(line) : MarkerAt(line, p) /\ \A q \in 1..(p - 1) : ~MarkerAt(line, q)
HasMarker(line) == \E p \in 1..Len(line) : MarkerAt(line, p)

\* what a line becomes when its separator is at position p (1-based) and the
\* first marker at position m
FillAt(line, m, p, mes_data) ==
    LET key == Strip(SubSeq(line, m + 2, p - 1))
    IN IF HasKey(mes_data, key)
       THEN SubSeq(line, 1, p) \o PyStr(Lookup(mes_data, key)) \o <<NL>>
       ELSE line

\* the rule of the specification: the separator is the first '=' or ':'
\* after the first '##'
FirstSeparatorRule(raw, mes_data) ==
    LET line == Terminated(raw)
    IN IF ~HasMarker(line) THEN line
       ELSE LET m == FirstMarker(line)
                seps == {p \in (m + 2)..Len(line) : line[p] \in {"=", ":"}}
            IN IF seps = {} THEN line
               ELSE FillAt(line, m, CHOOSE p \in seps : \A q \in seps : p <= q,
                           mes_data)

\* the rule with '=' preferred: the separator character is '=' when the line
\* holds an '=' anywhere, else ':', and the separator is its first
\* occurrence after the first '##'
EqualsPreferredRule(raw, mes_data) ==
    LET line == Terminated(raw)
    IN IF ~HasMarker(line) THEN line
       ELSE LET m == FirstMarker(line)
                c == IF \E p \in 1..Len(line) : line[p] = "=" THEN "=" ELSE ":"
                seps == {p \in (m + 2)..Len(line) : line[p] = c}
            IN IF seps = {} THEN line
               ELSE FillAt(line, m, CHOOSE p \in seps : \A q \in seps : p <= q,
                           mes_data)

\* C8 as stated: every template line is filled or passed through by the
\* first-separator-after-'##' rule.
C8_FirstSeparatorAfterMarker ==
    Merged => \A i \in 1..Len(TLines) : LineOut(i) = FirstSeparatorRule(TLines[i], data_dict)

\* C8 amended: every template line is filled or passed through by the rule
\* with '=' preferred: the separator character is '=' whenever the line
\* contains an '=' (before or after the '##'), otherwise ':'; the line is a
\* placeholder only if that character occurs after the first '##', its first
\* such occurrence is the separator and the key is the trimmed text between.
C8_EqualsPreferred ==
    Merged => \A i \in 1..Len(TLines) : LineOut(i) = EqualsPreferredRule(TLines[i], data_dict)

\* a line with ':' before '=' after the marker, filled under the key "A:"
C8_Witness ==
    /\ Merged
    /\ TLines = <<<<"#", "#", "A", ":", "=", NL>>>>
    /\ HasKey(data_dict, <<"A", ":">>)
    /\ Out[2] = <<"#", "#", "A", ":", "=", "7", NL>>

\* keys of data no template line was filled with, in data's key order
FilledKeys ==
    {MergeLine(TLines[i], data_dict).key :
        i \in {j \in 1..Len(TLines) : MergeLine(TLines[j], data_dict).filled}}
UnfilledKeys == SelectSeq(Keys(data_dict), LAMBDA k : k \notin FilledKeys)

ExpectedNewLine(key) ==
    <<"#", "#">> \o key \o <<"=">> \o PyStr(Lookup(data_dict, key)) \o <<NL>>

\* the last line the template loop emitted is the lone marker
TrailingMarker ==
    Len(TLines) >= 1
    /\ Strip(MergeLine(TLines[Len(TLines)], data_dict).out) = Marker

\* C9: each data key filled into no placeholder line yields exactly one
\* appended line ##key=value, the appended lines are in data's key order and
\* stand immediately before a last line that (trimmed) is exactly ##, which
\* stays last, and otherwise at the very end.
C9_UnfilledKeysAppended ==
    Merged =>
        LET n == Len(TLines)
            m == Len(UnfilledKeys)
            first == IF TrailingMarker THEN n ELSE n + 1
        IN /\ Len(Out) = 1 + n + m
           /\ \A j \in 1..m : Out[first + j] = ExpectedNewLine(UnfilledKeys[j])
           /\ \A k \in FilledKeys :
                 \A x \in 1..Len(Out) : x > 1 + n - (IF TrailingMarker THEN 1 ELSE 0)
                     => Out[x] # ExpectedNewLine(k)
           /\ (TrailingMarker /\ m > 0) =>
                 /\ Strip(Out[Len(Out)]) = Marker
                 /\ Out[Len(Out)] = Terminated(TLines[n])
           /\ ~TrailingMarker =>
                 \A i \in 1..n : Out[i + 1] = MergeLine(TLines[i], data_dict).out

\* scenario B of the specification
C9_Witness ==
    /\ Merged
    /\ TLines = <<<<"P", "#", "#", "A", "=", NL>>, <<"#", "#", NL>>>>
    /\ Keys(data_dict) = <<KeyA, KeyB>>
    /\ Len(Out) = 4
    /\ Out[2] = <<"P", "#", "#", "A", "=", "L", NL>>
    /\ Out[3] = <<"#", "#", "B", "=", "T", "r", "u", "e", NL>>
    /\ Out[4] = <<"#", "#", NL>>

\* the template lines that parse as placeholders, and their keys
PlaceholderLines == {i \in 1..Len(TLines) : ParseLine(TLines[i]).found}
PlaceholderKeys == {ParseLine(TLines[i]).key : i \in PlaceholderLines}
AllPlaceholderKeysInData == \A k \in PlaceholderKeys : HasKey(data_dict, k)

Substituted(i) ==
    LET line == Terminated(TLines[i])
        parsed == ParseLine(TLines[i])
    IN Slice(line, 0, parsed.sep_idx + 1)
         \o PyStr(Lookup(data_dict, parsed.key)) \o <<NL>>

\* C10 as stated: when the keys of all N placeholder lines are in data, the
\* output holds the N substituted lines and no appended line.
C10_NoAppendedLines ==
    (Merged /\ AllPlaceholderKeysInData) =>
        /\ \A i \in PlaceholderLines : Out[i + 1] = Substituted(i)
        /\ Len(Out) = 1 + Len(TLines)

\* C10 amended: when the keys of all N placeholder lines are in data, the
\* output holds the N substituted lines, and one appended line for each data
\* key that is the key of no placeholder line: none when every data key is
\* the key of some placeholder line.
C10_AppendedOnlyForOtherKeys ==
    (Merged /\ AllPlaceholderKeysInData) =>
        LET others == {i \in 1..Len(data_dict) : data_dict[i].k \notin PlaceholderKeys}
        IN /\ \A i \in PlaceholderLines : Out[i + 1] = Substituted(i)
           /\ Len(Out) = 1 + Len(TLines) + Cardinality(others)
           /\ others = {} => Len(Out) = 1 + Len(TLines)

C10_Witness ==
    /\ Merged
    /\ TLines = <<<<"P", "#", "#", "A", "=", NL>>, <<"#", "#", "B", ":", "x", NL>>>>
    /\ Keys(data_dict) = <<KeyA, KeyB>>
    /\ Out[2] = <<"P", "#", "#", "A", "=", "L", NL>>
    /\ Out[3] = <<"#", "#", "B", ":", "T", "r", "u", "e", NL>>
    /\ Len(Out) = 3

(***************************************************************************)
(* Properties of the write steps, the terminal states and the settings.    *)
(***************************************************************************)
WriteFailure == error_message = Some(WriteMessage)

\* C11: an I/O error of the processed-report write ends the run there: the
\* message is presented, the process exits with status 1 and the raw dump is
\* never attempted.
C11_WriteErrorIsFatal ==
    /\ [][(pc = "write_processed" /\ output_file'.state # "complete"
             /\ interrupts' = interrupts)
          => /\ pc' = "exited"
             /\ exit_code' = Some(1)
             /\ exit_via' = "show_error_and_exit"
             /\ error_message' = Some(WriteMessage)]_vars
    /\ [](WriteFailure =>
             /\ Exited
             /\ exit_code = Some(1)
             /\ output_file.state # "complete"
             /\ raw_file = "absent")

C11_Witness ==
    /\ Exited
    /\ WriteFailure
    /\ exit_code = Some(1)
    /\ output_file.state = "partial"
    /\ raw_file = "absent"

\* a raw dump that was not written as JSON or text
RawDumpFailed == raw_file \in {"absent", "partial"}

\* C12: once the processed report is written, an I/O error of the raw dump
\* (mkdir, open or write) is not fatal: the step after it is the normal end
\* of the run, no error is presented, and the process exits with status 0.
C12_RawErrorNotFatal ==
    /\ [][(pc \in {"write_raw", "raw_dump", "raw_fallback"}
             /\ interrupts' = interrupts)
          => /\ pc' \in {"raw_dump", "raw_fallback", "finish"}
             /\ IsNone(error_message')
             /\ IsNone(exit_code')]_vars
    /\ []((Exited /\ output_file.state = "complete" /\ interrupts = {}) =>
             /\ exit_code = Some(0)
             /\ exit_via = "sys.exit"
             /\ IsNone(error_message))

C12_Witness ==
    /\ Exited
    /\ output_file.state = "complete"
    /\ RawDumpFailed
    /\ interrupts = {}
    /\ exit_code = Some(0)

\* the invariant of the settings
SettingsInvariant(c) == c.retry_count >= 1 /\ c.request_timeout > 0

Done == Exited /\ exit_code = Some(0) /\ exit_via = "sys.exit"

Failed ==
    /\ Exited
    /\ exit_code = Some(1)
    /\ exit_via = "show_error_and_exit"
    /\ ~IsNone(error_message)

\* C13: with valid settings loaded and no interrupt, a run that has ended
\* is in exactly one terminal state, Done with status 0 or Failed with its
\* reason presented and status 1, and Done is reached only with the serial
\* loaded, the response fetched, the lines merged and the report written.
C13_OneTerminalState ==
    (Exited /\ interrupts = {} /\ ~IsNone(config)
        /\ SettingsInvariant(The(config))) =>
        /\ Done \/ Failed
        /\ ~(Done /\ Failed)
        /\ Done =>
              /\ ~IsNone(mb_sn)
              /\ ~IsNone(response)
              /\ ~IsNone(mes_data_content)
              /\ output_file.state = "complete"

\* C14: the core (everything after load_config) only runs with settings
\* that satisfy the settings invariant.
C14_CoreRunsOnValidSettings ==
    pc \notin {"load_config", "exited"} =>
        /\ ~IsNone(config)
        /\ SettingsInvariant(The(config))

(***************************************************************************)
(* Further properties of process_mes_template.                             *)
(***************************************************************************)
Previous == The(previous_content)

\* C15: a later call of process_mes_template on the same template and data
\* returns the same lines after the first; only the timestamp line may differ.
C15_RerunSameBody ==
    (Merged /\ ~IsNone(previous_content)) =>
        /\ Len(Out) = Len(Previous)
        /\ Tail(Out) = Tail(Previous)

C15_Witness ==
    /\ Merged
    /\ ~IsNone(previous_content)
    /\ Out[1] # Previous[1]
    /\ Len(Out) >= 3
    /\ Tail(Out) = Tail(Previous)

\* the template file yields no line: missing, unreadable or empty
NoTemplate ==
    \/ ~template_file.exists
    \/ ~template_file.readable
    \/ template_file.lines = <<>>

\* C16: a missing or unreadable template is handled as an empty one: the
\* output is the timestamp line and then one line ##key=value per data key,
\* in data's key order, and nothing else.
C16_MissingTemplateIsEmpty ==
    (Merged /\ NoTemplate) =>
        /\ Out[1] \in {TimestampLine(c) : c \in Clocks}
        /\ Len(Out) = 1 + Len(data_dict)
        /\ \A j \in 1..Len(data_dict) : Out[1 + j] = ExpectedNewLine(data_dict[j].k)

\* scenario C of the specification, with an unreadable template
C16_Witness ==
    /\ Merged
    /\ template_file.exists
    /\ ~template_file.readable
    /\ template_file.lines # <<>>
    /\ Keys(data_dict) = <<KeyB, KeyA>>
    /\ Len(Out) = 3
    /\ Out[2] = <<"#", "#", "B", "=", "F", "a", "l", "s", "e", NL>>
    /\ Out[3] = <<"#", "#", "A", "=", "1", NL>>

\* the line is to be filled: it parses as a placeholder and data has its key
ToFill(i) == i \in PlaceholderLines /\ HasKey(data_dict, ParseLine(TLines[i]).key)

\* the line as read, ending with a line terminator
Normalised(raw) == IF raw # <<>> /\ raw[Len(raw)] = NL THEN raw ELSE raw \o <<NL>>

OtherKeys == {j \in 1..Len(data_dict) : data_dict[j].k \notin PlaceholderKeys}

\* C17: a template line without placeholder pattern, or whose key is not in
\* data, is emitted unchanged but for the line terminator; every template
\* line yields exactly one output line and the lines keep their order.
C17_PassthroughUnchanged ==
    Merged =>
        /\ \A i \in 1..Len(TLines) : ~ToFill(i) => LineOut(i) = Normalised(TLines[i])
        /\ \A i \in 1..Len(TLines) : ToFill(i) => LineOut(i) = Substituted(i)
        /\ \A i \in 1..(Len(TLines) - 1) : Out[i + 1] =
              (IF ToFill(i) THEN Substituted(i) ELSE Normalised(TLines[i]))
        /\ Len(Out) = 1 + Len(TLines) + Cardinality(OtherKeys)

C17_Witness ==
    /\ Merged
    /\ TLines = <<<<"t", "x", "t", NL>>, <<"#", "#", "B", ":", "x">>>>
    /\ Keys(data_dict) = <<KeyA>>
    /\ Len(Out) = 4
    /\ Out[2] = <<"t", "x", "t", NL>>
    /\ Out[3] = <<"#", "#", "B", ":", "x", NL>>
    /\ Out[4] = <<"#", "#", "A", "=", "1", NL>>

\* the positions of the output that hold appended lines
AppendedPositions ==
    LET n == Len(TLines)
    IN IF n >= 1 /\ Len(Out) > n + 1 /\ Strip(Out[Len(Out)]) = Marker
       THEN (n + 1)..(Len(Out) - 1)
       ELSE (n + 2)..Len(Out)

AppendedCount(key) ==
    Cardinality({x \in AppendedPositions : Out[x] = ExpectedNewLine(key)})

LinesWithKey(key) == {i \in PlaceholderLines : ParseLine(TLines[i]).key = key}

\* C18: when several placeholder lines carry the same key and data has it,
\* each of them is filled with the value and the key is never appended.
C18_RepeatedKeyFilledEverywhere ==
    Merged =>
        \A j \in 1..Len(data_dict) :
            LET key == data_dict[j].k
            IN Cardinality(LinesWithKey(key)) >= 2 =>
                  /\ \A i \in LinesWithKey(key) : Out[i + 1] = Substituted(i)
                  /\ AppendedCount(key) = 0

C18_Witness ==
    /\ Merged
    /\ TLines = <<<<"P", "#", "#", "A", "=", NL>>, <<"#", "#", " ", "A", " ", "=", NL>>>>
    /\ Keys(data_dict) = <<KeyA>>
    /\ Out[2] = <<"P", "#", "#", "A", "=", "1", NL>>
    /\ Out[3] = <<"#", "#", " ", "A", " ", "=", "1", NL>>
    /\ Len(Out) = 3

\* the key is filled into at least one placeholder line of the output
FilledInOutput(key) == \E i \in LinesWithKey(key) : Out[i + 1] = Substituted(i)

\* C19: every key of data is either filled into at least one placeholder
\* line or appended exactly once as ##key=value, never both and never
\* neither; the merge leaves data as it was.
C19_EveryKeyOnce ==
    /\ [](Merged =>
            /\ \A j \in 1..Len(data_dict) :
                  LET key == data_dict[j].k
                  IN \/ FilledInOutput(key) /\ AppendedCount(key) = 0
                     \/ ~FilledInOutput(key) /\ AppendedCount(key) = 1
            /\ Cardinality(AppendedPositions)
                 = Cardinality({j \in 1..Len(data_dict) : ~FilledInOutput(data_dict[j].k)}))
    /\ [][data_dict' = data_dict]_vars

C19_Witness ==
    /\ Merged
    /\ TLines = <<<<"P", "#", "#", "A", "=", NL>>>>
    /\ Keys(data_dict) = <<KeyC, KeyA>>
    /\ Out[2] = <<"P", "#", "#", "A", "=", "1", NL>>
    /\ Out[3] = <<"#", "#", "C", "=", "7", NL>>
    /\ Len(Out) = 3

(***************************************************************************)
(* What a successful exit rests on.                                        *)
(***************************************************************************)
\* C20: the process exits with status 0 only with the processed report
\* completely written with the lines merged from the data of the attempt
\* that returned success == true, which was the last request of the run;
\* after the loop mes_data_content is set exactly when response is the
\* response of a true-success attempt; a run whose attempts all failed writes
\* no output file.
C20_ExitZeroMeansReportWritten ==
    /\ exit_code = Some(0) =>
          /\ output_file.state = "complete"
          /\ output_file.lines = The(mes_data_content)
          /\ \E now \in Clocks :
                output_file.lines =
                    ProcessMesTemplate(IF template_file.exists /\ template_file.readable
                                       THEN template_file.lines ELSE <<>>,
                                       DataDict(The(response).body), now)
          /\ LastClass = "success"
          /\ Len(outcomes) = gets
    /\ (pc = "after_loop" \/ ClientSuccess) =>
          /\ ~IsNone(mes_data_content) <=> ~IsNone(response)
          /\ ~IsNone(response) =>
                (outcomes # <<>> /\ LastClass = "success" /\ Class(The(response)) = "success")
    /\ ClientSuccess => ~IsNone(mes_data_content)
    /\ ~HasSuccess(outcomes) => output_file.state = "absent"

C20_Witness ==
    /\ Exited
    /\ exit_code = Some(0)
    /\ outcomes = <<"bizfail", "success">>
    /\ output_file.state = "complete"
    /\ Len(output_file.lines) = 4
    /\ data_dict = DataDict(The(response).body)

=============================================================================
